---- MODULE Spec2Model ----
(***************************************************************************)
(* PRBot (solver.py): the Poll Driver solve_bounty and the Orchestrator    *)
(* fork_and_create_pr, with the processed_issues.txt file, the rows of the *)
(* Issues table and the remote repository-hosting state they act on.       *)
(* Strings are sequences of one-character strings, so that the regex       *)
(* match, int(), the f-strings and the write / splitlines round trip of    *)
(* the file are computed as the code computes them.                        *)
(***************************************************************************)
EXTENDS Naturals, Sequences, FiniteSets, TLC

\* ------------------------------------------------------------------ bounds
\* rows one query of the Issues table returns at most
MaxRows == 2
\* empty lines in the file after which the store no longer returns a link
\* that ends with a line break (such a link is appended again in every cycle)
MaxBlank == 1

\* ----------------------------------------------------------------- strings
NL == "\n"

Digits == {"0", "1", "2", "3", "4", "5", "6", "7", "8", "9"}

DigitVal(c) ==
    CASE c = "0" -> 0 [] c = "1" -> 1 [] c = "2" -> 2 [] c = "3" -> 3
      [] c = "4" -> 4 [] c = "5" -> 5 [] c = "6" -> 6 [] c = "7" -> 7
      [] c = "8" -> 8 [] c = "9" -> 9

DigitChar(d) ==
    CASE d = 0 -> "0" [] d = 1 -> "1" [] d = 2 -> "2" [] d = 3 -> "3"
      [] d = 4 -> "4" [] d = 5 -> "5" [] d = 6 -> "6" [] d = 7 -> "7"
      [] d = 8 -> "8" [] d = 9 -> "9"

\* int(s) of a non-empty string of decimal digits (leading zeros dropped)
RECURSIVE IntOf(_)
IntOf(s) ==
    IF s = <<>> THEN 0
    ELSE 10 * IntOf(SubSeq(s, 1, Len(s) - 1)) + DigitVal(s[Len(s)])

\* str(n), the decimal digits an f-string puts for the integer n
RECURSIVE StrOf(_)
StrOf(n) ==
    IF n < 10 THEN <<DigitChar(n)>>
    ELSE StrOf(n \div 10) \o <<DigitChar(n % 10)>>

StartsWithAt(s, i, p) ==
    /\ i + Len(p) - 1 <= Len(s)
    /\ \A k \in 1..Len(p) : s[i + k - 1] = p[k]

\* length of the longest run of characters of the set cls that starts at s[i]
RunLen(s, i, cls) ==
    LET Stops(k) == i + k > Len(s) \/ s[i + k] \notin cls
    IN CHOOSE k \in 0..Len(s) : Stops(k) /\ \A j \in 0..(k - 1) : ~Stops(j)

UrlPrefix ==
    <<"h", "t", "t", "p", "s", ":", "/", "/",
      "g", "i", "t", "h", "u", "b", ".", "c", "o", "m", "/">>

IssuesPart == <<"/", "i", "s", "s", "u", "e", "s", "/">>

\* every character a link of the model is made of
Alphabet ==
    Digits \cup {"/", ":", ".", "-", "a", "b", "c", "e", "g", "h", "i", "l", "m",
                 "o", "p", "s", "t", "u", "w"}

\* the characters [^/] matches, and those \d matches
NotSlash == (Alphabet \cup {NL}) \ {"/"}
IsDigit == Digits

\* re.match(r'https://github.com/([^/]+/[^/]+)/issues/(\d+)', s): a match
\* anchored at the start only.  [^/]+ and \d+ are greedy and the character
\* after each run is outside its class, so no shorter run can match.
NoMatch == [ok |-> FALSE, repo |-> <<>>, name |-> <<>>, digits |-> <<>>]

ReMatch(s) ==
    IF ~StartsWithAt(s, 1, UrlPrefix) THEN NoMatch
    ELSE
      LET o == Len(UrlPrefix) + 1
          n1 == RunLen(s, o, NotSlash)
      IN IF n1 = 0 \/ ~StartsWithAt(s, o + n1, <<"/">>) THEN NoMatch
         ELSE
           LET r == o + n1 + 1
               n2 == RunLen(s, r, NotSlash)
           IN IF n2 = 0 \/ ~StartsWithAt(s, r + n2, IssuesPart) THEN NoMatch
              ELSE
                LET d == r + n2 + Len(IssuesPart)
                    n3 == RunLen(s, d, IsDigit)
                IN IF n3 = 0 THEN NoMatch
                   ELSE [ok |-> TRUE,
                         repo |-> SubSeq(s, o, r + n2 - 1),
                         name |-> SubSeq(s, r, r + n2 - 1),
                         digits |-> SubSeq(s, d, d + n3 - 1)]

\* str.splitlines() of the text of the file: a line ends at each "\n", and a
\* last line without "\n" counts when it is not empty
SplitLines(s) ==
    LET nls == {i \in 1..Len(s) : s[i] = NL}
        ends == nls \cup (IF Len(s) > 0 /\ s[Len(s)] # NL THEN {Len(s) + 1} ELSE {})
        EndOf(k) == CHOOSE e \in ends : Cardinality({x \in ends : x < e}) = k - 1
        StartOf(e) == IF \E j \in nls : j < e
                      THEN 1 + CHOOSE j \in nls : j < e /\ \A x \in nls : x < e => x <= j
                      ELSE 1
    IN [k \in 1..Cardinality(ends) |-> SubSeq(s, StartOf(EndOf(k)), EndOf(k) - 1)]

SeqToSet(q) == {q[k] : k \in 1..Len(q)}

\* ------------------------------------------------------ rows of the store
Str_aw == <<"a", "/", "w">>
Str_bw == <<"b", "/", "w">>

\* https://github.com/a/w/issues/7
LinkA7 == UrlPrefix \o Str_aw \o IssuesPart \o <<"7">>
\* https://github.com/b/w/issues/08 followed by a line break: another upstream
\* with the same repository name, an issue number written with a leading zero,
\* and a value of the column that was stored with its line terminator
LinkB08NL == UrlPrefix \o Str_bw \o IssuesPart \o <<"0", "8", NL>>
\* https://github.com/a/w/pull/7 : not the URL of an issue
LinkPull == UrlPrefix \o Str_aw \o <<"/", "p", "u", "l", "l", "/", "7">>

Links == {LinkA7, LinkB08NL, LinkPull}

\* the match object of every link a row can carry, computed once
MatchTable == [l \in Links \cup {<<>>} |-> ReMatch(l)]
MatchOf(l) == MatchTable[l]

\* issue.get('issue_link') of a row: None when the key is missing, else a string
\* (possibly empty)
NoneRow == [present |-> FALSE, link |-> <<>>]
RowOf(l) == [present |-> TRUE, link |-> l]
RowValues == {NoneRow, RowOf(<<>>)} \cup {RowOf(l) : l \in Links}

RowLists == UNION {[1..n -> RowValues] : n \in 0..MaxRows}

\* the lists in which no link holds a line break
SingleLineRowLists ==
    {rs \in RowLists : \A k \in DOMAIN rs : NL \notin SeqToSet(rs[k].link)}

\* ---------------------------------------------------------- remote objects
Login == <<"m", "e">>
BranchPrefix == <<"i", "s", "s", "u", "e", "-", "f", "i", "x">>
BaseBranch == <<"m", "a", "i", "n">>
ReadmePath == <<"README.md">>
Hello == <<NL, "h", "e", "l", "l", "o">>
HelloOnly == <<"h", "e", "l", "l", "o">>

\* what README.md at the root of a repository can be when it is forked: absent,
\* text that decodes, or bytes that decoded_content.decode() rejects
NoReadme == [exists |-> FALSE, decodes |-> FALSE, text |-> <<>>]
TextReadme == [exists |-> TRUE, decodes |-> TRUE, text |-> <<"h", "i">>]
BinaryReadme == [exists |-> TRUE, decodes |-> FALSE, text |-> <<"#", "#">>]
ReadmeStates == {NoReadme, TextReadme, BinaryReadme}

\* what get_issue answers with: the title, and the body, which is None for an
\* issue opened without a description
NoIssue == [title |-> <<>>, none |-> TRUE, body |-> <<>>]
BareIssue == [title |-> <<"t">>, none |-> TRUE, body |-> <<>>]
TextIssue == [title |-> <<"u">>, none |-> FALSE, body |-> <<"b", "u", "g">>]
IssueStates == {BareIssue, TextIssue}

\* the literal parts of pr_title and pr_body (lines 146-154)

TitleHead ==
    <<"F", "i", "x", "e", "s", " ", "#">>

BodyHead ==
    <<"T", "h", "i", "s", " ", "P", "R", " ", "a", "d", "d", "r", "e", "s",
      "s", "e", "s", " ", "i", "s", "s", "u", "e", " ", "#">>

BodyChanges ==
    <<NL, NL, "#", "#", " ", "C", "h", "a", "n", "g", "e", "s", " ", "M",
      "a", "d", "e", NL, "T", "h", "e", " ", "f", "o", "l", "l", "o", "w",
      "i", "n", "g", " ", "f", "i", "l", "e", "s", " ", "w", "e", "r", "e",
      " ", "m", "o", "d", "i", "f", "i", "e", "d", ":", NL>>

BodyIssue ==
    <<NL, NL, "#", "#", " ", "O", "r", "i", "g", "i", "n", "a", "l", " ",
      "I", "s", "s", "u", "e", NL>>

Marker ==
    <<"<", "<", "S", "O", "L", "V", "E", "R", ":", "0", "x", "0", "5", "4",
      "3", "a", "e", "5", "5", "a", "3", "8", "f", "e", "8", "b", "b", "1",
      "0", "4", "1", "e", "f", "b", "7", "f", "6", "1", "3", "5", "b", "b",
      "2", "3", "e", "6", "1", "d", "4", "2", "2", ">", ">">>

\* the backquote character around the marker (line 153), as one token
Backquote == "BACKQUOTE"

NoneStr ==
    <<"N", "o", "n", "e">>

\* log lines (print)
MsgNoIssues == "No issues found in the table"
MsgInvalid == "Invalid issue link format"
MsgProcessing == "Processing issue"
MsgErrorProcessing == "Error processing issue"
MsgWaiting == "Waiting 30 seconds before next check..."
MsgNoUpstream == "Error: Could not access upstream repository"
MsgFoundFork == "Found existing fork"
MsgNoFork == "No existing fork found. Creating a new fork..."
MsgForkCreated == "Fork created"
MsgFoundBase == "Found base branch on fork"
MsgNoBase == "Could not find base branch on fork. Attempting to create it from upstream..."
MsgBaseCreated == "Created base branch on fork from upstream"
MsgBranchCreated == "Created branch on fork"
MsgNoBranch == "Error: Could not create branch on fork"
MsgAnalyzing == "Analyzing issue"
MsgNoIssue == "Error: Could not fetch issue"
MsgFoundFiles == "Found files to analyze"
MsgNoContents == "Error: Could not fetch repository contents"
MsgUpdated == "Updated"
MsgErrorUpdating == "Error updating"
MsgPrCreated == "Pull Request created successfully"
MsgPrError == "Error creating pull request in upstream repo."

VARIABLES
    pc,            \* where solve_bounty is
    fileExists,    \* os.path.exists("processed_issues.txt")
    file,          \* the text of processed_issues.txt
    processed,     \* processed_issues, the set loaded at the top of the cycle
    rows,          \* the rows of response.data the for loop has yet to leave:
                   \* rows[1] is the row it is at
    opc,           \* where fork_and_create_pr is ("idle" outside a call)
    orch,          \* the locals of the running fork_and_create_pr call
    forks,         \* remote: the actor's forks, each with its README.md
    refs,          \* remote: <<fork full name, branch name>> that exist
    commits,       \* remote: commits made by update_file
    pulls,         \* remote: pull requests opened, in order
    out,           \* the lines the last step printed
    outcome,       \* how the fork_and_create_pr call of the row ended
    invoked,       \* history: links fork_and_create_pr was called for this cycle
    owed,          \* history: links whose pull request was opened by a call that
                   \* returned, not in the file when the process was killed
                   \* before the append, and not called for since
    fileAtLoad,    \* history: the text of the file when the cycle began
    raisedFor,     \* history: links for which a call raised while they were
                   \* not in the file, and that were not appended since
    last           \* history: the step taken last

vars == <<pc, fileExists, file, processed, rows, opc, orch, forks, refs,
          commits, pulls, out, outcome, invoked, owed, fileAtLoad, raisedFor,
          last>>

remote == <<forks, refs, commits, pulls>>
memory == <<processed, rows>>
history == <<invoked, owed, fileAtLoad, raisedFor>>

NoCall ==
    [repo |-> <<>>, number |-> 0, name |-> <<>>, fork |-> <<>>, branch |-> <<>>,
     readme |-> NoReadme, changes |-> <<>>, ci |-> 1, created |-> FALSE,
     issue |-> NoIssue]

Init ==
    /\ pc = "startup"
    /\ fileExists = FALSE
    /\ file = <<>>
    /\ processed = {}
    /\ rows = <<>>
    /\ opc = "idle"
    /\ orch = NoCall
    /\ forks = {}
    /\ refs = {}
    /\ commits = {}
    /\ pulls = <<>>
    /\ out = <<>>
    /\ outcome = "none"
    /\ invoked = {}
    /\ owed = {}
    /\ fileAtLoad = <<>>
    /\ raisedFor = {}
    /\ last = "Init"

\* --------------------------------------------------------------- helpers
Lines(f) == SplitLines(f)

\* how many lines of the text of the file are empty: a "\n" at the start of
\* the text or right after another
BlankLines(f) ==
    Cardinality({i \in 1..Len(f) : f[i] = NL /\ (i = 1 \/ f[i - 1] = NL)})

HasLineBreak(l) == NL \in SeqToSet(l)

\* the for loop goes to the row after the one it is at, or leaves the loop
AfterRow == IF Len(rows) > 1 THEN "row" ELSE "sleep"

ForkExists(n) == \E f \in forks : f.name = n
ForkNamed(n) == CHOOSE f \in forks : f.name = n

\* f"{user.login}/{upstream_repo.name}"
ForkFullName(name) == Login \o <<"/">> \o name
\* f"{branch_prefix}-{issue_number}"
NewBranchName(n) == BranchPrefix \o <<"-">> \o StrOf(n)
\* f"{user.login}:{new_branch_name}"
HeadWithOwner(b) == Login \o <<":">> \o b

\* "\n".join([f"- {change['file'].path}" for change in changes_needed])
RECURSIVE JoinPaths(_)
JoinPaths(changes) ==
    IF changes = <<>> THEN <<>>
    ELSE IF Len(changes) = 1 THEN <<"-", " ">> \o changes[1].path
    ELSE JoinPaths(SubSeq(changes, 1, Len(changes) - 1))
           \o <<NL, "-", " ">> \o changes[Len(changes)].path

\* what an f-string puts for the body of the issue: the text, or None
BodyStr(issue) == IF issue.none THEN NoneStr ELSE issue.body

\* line 146
PrTitle(number, issue) ==
    TitleHead \o StrOf(number) \o <<":", " ">> \o issue.title

\* PrBody with the marker left out when no file was changed
PrBodyMarkedIfChanged(number, changes, issue) ==
    BodyHead \o StrOf(number) \o BodyChanges \o JoinPaths(changes)
      \o BodyIssue \o BodyStr(issue) \o <<NL, NL>>
      \o (IF changes = <<>> THEN <<>> ELSE <<Backquote>> \o Marker \o <<Backquote>>)

\* lines 147-154
PrBody(number, changes, issue) ==
    BodyHead \o StrOf(number) \o BodyChanges \o JoinPaths(changes)
      \o BodyIssue \o BodyStr(issue) \o <<NL, NL>>
      \o <<Backquote>> \o Marker \o <<Backquote>>

\* lines 117-128: the changes for the files found, README.md at the root only
ChangesNeeded(readme) ==
    IF readme.exists
    THEN <<[path |-> ReadmePath,
            prior |-> readme,
            new_content |-> IF readme.decodes THEN readme.text \o Hello
                            ELSE HelloOnly]>>
    ELSE <<>>

\* ------------------------------------------------- solve_bounty (the driver)
\* lines 183-187: create the file when it is absent
Startup ==
    /\ pc = "startup"
    /\ fileExists' = TRUE
    /\ file' = IF fileExists THEN file ELSE <<>>
    /\ pc' = "load"
    /\ out' = <<>>
    /\ UNCHANGED <<memory, opc, orch, remote, outcome, history>>
    /\ last' = "Startup"

\* LoadProcessed with the file read once, before the loop, instead of at the
\* top of every cycle
LoadProcessedStale ==
    /\ pc = "load"
    /\ processed' = IF last = "Startup" THEN SeqToSet(Lines(file)) ELSE processed
    /\ invoked' = {}
    /\ fileAtLoad' = file
    /\ pc' = "query"
    /\ out' = <<>>
    /\ UNCHANGED <<fileExists, file, rows, opc, orch, remote, outcome, owed,
                   raisedFor>>
    /\ last' = "LoadProcessed"

\* lines 189-192: the top of the loop, the whole file read again
LoadProcessed ==
    /\ pc = "load"
    /\ processed' = SeqToSet(Lines(file))
    /\ invoked' = {}
    /\ fileAtLoad' = file
    /\ pc' = "query"
    /\ out' = <<>>
    /\ UNCHANGED <<fileExists, file, rows, opc, orch, remote, outcome, owed,
                   raisedFor>>
    /\ last' = "LoadProcessed"

\* lines 195-200: the query, and the rows it returned
QueryStore ==
    /\ pc = "query"
    /\ \E rs \in (IF BlankLines(file) >= MaxBlank THEN SingleLineRowLists
                  ELSE RowLists) :
         /\ rows' = rs
         /\ pc' = IF rs = <<>> THEN "sleep" ELSE "row"
         /\ out' = IF rs = <<>> THEN <<MsgNoIssues>> ELSE <<>>
    /\ UNCHANGED <<fileExists, file, processed, opc, orch, remote, outcome,
                   history>>
    /\ last' = "QueryStore"

Continue(msgs) ==
    /\ rows' = Tail(rows)
    /\ pc' = AfterRow
    /\ outcome' = "none"
    /\ out' = msgs

\* lines 202-204: a row without a link
SkipNoLink ==
    /\ pc = "row"
    /\ ~rows[1].present \/ rows[1].link = <<>>
    /\ Continue(<<>>)
    /\ UNCHANGED <<fileExists, file, processed, opc, orch, remote, history>>
    /\ last' = "SkipNoLink"

\* SkipProcessed that also skips the links whose call raised before
SkipProcessedOrFailed ==
    /\ pc = "row"
    /\ rows[1].present /\ rows[1].link # <<>>
    /\ rows[1].link \in processed \cup raisedFor
    /\ Continue(<<>>)
    /\ UNCHANGED <<fileExists, file, processed, opc, orch, remote, history>>
    /\ last' = "SkipProcessed"

\* lines 206-208: a row whose link is in the set loaded at the top of the cycle
SkipProcessed ==
    /\ pc = "row"
    /\ rows[1].present /\ rows[1].link # <<>>
    /\ rows[1].link \in processed
    /\ Continue(<<>>)
    /\ UNCHANGED <<fileExists, file, processed, opc, orch, remote, history>>
    /\ last' = "SkipProcessed"

\* SkipInvalid without its print
SkipInvalidSilent ==
    /\ pc = "row"
    /\ rows[1].present /\ rows[1].link # <<>>
    /\ rows[1].link \notin processed
    /\ ~MatchOf(rows[1].link).ok
    /\ Continue(<<>>)
    /\ UNCHANGED <<fileExists, file, processed, opc, orch, remote, history>>
    /\ last' = "SkipInvalid"

\* lines 210-214: a link the pattern does not match
SkipInvalid ==
    /\ pc = "row"
    /\ rows[1].present /\ rows[1].link # <<>>
    /\ rows[1].link \notin processed
    /\ ~MatchOf(rows[1].link).ok
    /\ Continue(<<MsgInvalid>>)
    /\ UNCHANGED <<fileExists, file, processed, opc, orch, remote, history>>
    /\ last' = "SkipInvalid"

\* Invoke that takes the rows from the end of the list
InvokeFromTheEnd ==
    /\ pc = "row"
    /\ rows[1].present /\ rows[1].link # <<>>
    /\ rows[1].link \notin processed
    /\ MatchOf(rows[1].link).ok
    /\ LET m == MatchOf(rows[Len(rows)].link) IN
         /\ m.ok
         /\ orch' = [NoCall EXCEPT !.repo = m.repo, !.name = m.name,
                                   !.number = IntOf(m.digits)]
    /\ pc' = "call"
    /\ opc' = "upstream"
    /\ out' = <<MsgProcessing>>
    /\ outcome' = "running"
    /\ invoked' = invoked \cup {rows[1].link}
    /\ owed' = owed \ {rows[1].link}
    /\ UNCHANGED <<fileExists, file, memory, remote, fileAtLoad, raisedFor>>
    /\ last' = "Invoke"

\* lines 216-227: the call of fork_and_create_pr
Invoke ==
    /\ pc = "row"
    /\ rows[1].present /\ rows[1].link # <<>>
    /\ rows[1].link \notin processed
    /\ LET m == MatchOf(rows[1].link) IN
         /\ m.ok
         /\ orch' = [NoCall EXCEPT !.repo = m.repo, !.name = m.name,
                                   !.number = IntOf(m.digits)]
    /\ pc' = "call"
    /\ opc' = "upstream"
    /\ out' = <<MsgProcessing>>
    /\ outcome' = "running"
    /\ invoked' = invoked \cup {rows[1].link}
    /\ owed' = owed \ {rows[1].link}
    /\ UNCHANGED <<fileExists, file, memory, remote, fileAtLoad, raisedFor>>
    /\ last' = "Invoke"

\* lines 228-230: the call returned, the link is appended to the file
AppendProcessed ==
    /\ pc = "append"
    /\ file' = file \o rows[1].link \o <<NL>>
    /\ Continue(<<>>)
    /\ raisedFor' = raisedFor \ {rows[1].link}
    /\ UNCHANGED <<fileExists, processed, opc, orch, remote, invoked, owed,
                   fileAtLoad>>
    /\ last' = "AppendProcessed"

\* Sleep with the loop left after one pass
SleepThenExit ==
    /\ pc = "sleep"
    /\ pc' = "exit"
    /\ out' = <<MsgWaiting>>
    /\ UNCHANGED <<fileExists, file, memory, opc, orch, remote, outcome,
                   history>>
    /\ last' = "Sleep"

\* lines 234-235: the wait between two cycles
Sleep ==
    /\ pc = "sleep"
    /\ pc' = "load"
    /\ out' = <<MsgWaiting>>
    /\ UNCHANGED <<fileExists, file, memory, opc, orch, remote, outcome,
                   history>>
    /\ last' = "Sleep"

\* Return with nothing printed on the way out
ReturnSilent(kind, msgs) ==
    /\ pc' = "append"
    /\ opc' = "idle"
    /\ orch' = NoCall
    /\ outcome' = kind
    /\ out' = <<>>
    /\ UNCHANGED <<fileExists, file, memory, history>>

\* fork_and_create_pr returns (lines 40, 81, 92, 108, 171 and the end)
Return(kind, msgs) ==
    /\ pc' = "append"
    /\ opc' = "idle"
    /\ orch' = NoCall
    /\ outcome' = kind
    /\ out' = msgs
    /\ UNCHANGED <<fileExists, file, memory, history>>

\* Raise with the try around the for loop instead of inside it: the rows that
\* are left are dropped
RaiseAbortsCycle(msgs) ==
    /\ pc' = "sleep"
    /\ rows' = <<>>
    /\ opc' = "idle"
    /\ orch' = NoCall
    /\ outcome' = "raised"
    /\ out' = msgs \o <<MsgErrorProcessing>>
    /\ raisedFor' = IF rows[1].link \in SeqToSet(Lines(file)) THEN raisedFor
                    ELSE raisedFor \cup {rows[1].link}
    /\ UNCHANGED <<fileExists, file, processed, invoked, owed, fileAtLoad>>

\* fork_and_create_pr raises, caught at lines 231-232
Raise(msgs) ==
    /\ pc' = AfterRow
    /\ rows' = Tail(rows)
    /\ opc' = "idle"
    /\ orch' = NoCall
    /\ outcome' = "raised"
    /\ out' = msgs \o <<MsgErrorProcessing>>
    /\ raisedFor' = IF rows[1].link \in SeqToSet(Lines(file)) THEN raisedFor
                    ELSE raisedFor \cup {rows[1].link}
    /\ UNCHANGED <<fileExists, file, processed, invoked, owed, fileAtLoad>>

\* the call goes on to its next step
Step(next, locals, msgs) ==
    /\ opc' = next
    /\ orch' = locals
    /\ out' = msgs
    /\ UNCHANGED <<pc, fileExists, file, memory, outcome,
                   history>>

\* ---------------------------------------- fork_and_create_pr (the orchestrator)
\* Every call of the hosting API either answers or raises; it cannot answer
\* with an object the remote does not have, nor create a reference twice.

\* lines 34-40: the upstream repository
GetUpstream ==
    /\ opc = "upstream"
    /\ \E ok \in BOOLEAN :
         IF ok THEN Step("fork", orch, <<>>)
         ELSE Return("no_upstream", <<MsgNoUpstream>>)
    /\ UNCHANGED remote
    /\ last' = "GetUpstream"

\* lines 42-48: look the fork up
FindFork ==
    /\ opc = "fork"
    /\ LET fn == ForkFullName(orch.name) IN
       \E ok \in BOOLEAN :
         /\ ok => ForkExists(fn)
         /\ IF ok THEN Step("base", [orch EXCEPT !.fork = fn], <<MsgFoundFork>>)
            ELSE Step("create_fork", [orch EXCEPT !.fork = fn], <<MsgNoFork>>)
    /\ UNCHANGED remote
    /\ last' = "FindFork"

\* lines 49-51: request the fork (the remote answers with the fork there is
\* when there is one), then wait
CreateFork ==
    /\ opc = "create_fork"
    /\ \E ok \in BOOLEAN :
         IF ~ok THEN Raise(<<>>) /\ UNCHANGED remote
         ELSE
           /\ Step("refetch_fork", orch, <<>>)
           /\ IF ForkExists(orch.fork) THEN UNCHANGED remote
              ELSE \E rd \in ReadmeStates, hasBase \in BOOLEAN :
                     /\ forks' = forks \cup {[name |-> orch.fork, readme |-> rd]}
                     /\ refs' = IF hasBase THEN refs \cup {<<orch.fork, BaseBranch>>}
                                ELSE refs
                     /\ UNCHANGED <<commits, pulls>>
    /\ last' = "CreateFork"

\* RefetchFork in a retry loop: when the fork is not visible it is requested
\* again
RefetchForkRetrying ==
    /\ opc = "refetch_fork"
    /\ \E ok \in BOOLEAN :
         /\ ok => ForkExists(orch.fork)
         /\ IF ok THEN Step("base", orch, <<MsgForkCreated>>)
            ELSE Step("create_fork", orch, <<>>)
    /\ UNCHANGED remote
    /\ last' = "RefetchFork"

\* lines 52-54: the one lookup after the wait
RefetchFork ==
    /\ opc = "refetch_fork"
    /\ \E ok \in BOOLEAN :
         /\ ok => ForkExists(orch.fork)
         /\ IF ok THEN Step("base", orch, <<MsgForkCreated>>) ELSE Raise(<<>>)
    /\ UNCHANGED remote
    /\ last' = "RefetchFork"

\* FindBase that goes on to the issue branch when the base branch is not found
FindBaseSkipsCreate ==
    /\ opc = "base"
    /\ \E ok \in BOOLEAN :
         /\ ok => <<orch.fork, BaseBranch>> \in refs
         /\ IF ok THEN Step("branch", orch, <<MsgFoundBase>>)
            ELSE Step("branch", orch, <<MsgNoBase>>)
    /\ UNCHANGED remote
    /\ last' = "FindBase"

\* lines 56-63: the base branch of the fork
FindBase ==
    /\ opc = "base"
    /\ \E ok \in BOOLEAN :
         /\ ok => <<orch.fork, BaseBranch>> \in refs
         /\ IF ok THEN Step("branch", orch, <<MsgFoundBase>>)
            ELSE Step("create_base", orch, <<MsgNoBase>>)
    /\ UNCHANGED remote
    /\ last' = "FindBase"

\* lines 64-68: read the upstream's base branch, create it on the fork and
\* read it back; each of the three calls may raise
CreateBase ==
    /\ opc = "create_base"
    /\ \E upstreamOk \in BOOLEAN, createOk \in BOOLEAN, readOk \in BOOLEAN :
         /\ createOk => <<orch.fork, BaseBranch>> \notin refs
         /\ ~upstreamOk => ~createOk
         /\ ~createOk => ~readOk
         /\ refs' = IF createOk THEN refs \cup {<<orch.fork, BaseBranch>>} ELSE refs
         /\ IF readOk THEN Step("branch", orch, <<MsgBaseCreated>>)
            ELSE Raise(<<>>)
    /\ UNCHANGED <<forks, commits, pulls>>
    /\ last' = "CreateBase"

\* CreateBranch with the failure logged but no return after it
CreateBranchNoReturn ==
    /\ opc = "branch"
    /\ LET b == NewBranchName(orch.number) IN
       \E ok \in BOOLEAN :
         /\ ok => <<orch.fork, b>> \notin refs
         /\ refs' = IF ok THEN refs \cup {<<orch.fork, b>>} ELSE refs
         /\ Step("issue", [orch EXCEPT !.branch = b, !.created = ok],
                 IF ok THEN <<MsgBranchCreated>> ELSE <<MsgNoBranch>>)
    /\ UNCHANGED <<forks, commits, pulls>>
    /\ last' = "CreateBranch"

\* lines 70-81: the issue branch
CreateBranch ==
    /\ opc = "branch"
    /\ LET b == NewBranchName(orch.number) IN
       \E ok \in BOOLEAN :
         /\ ok => <<orch.fork, b>> \notin refs
         /\ IF ok
            THEN /\ refs' = refs \cup {<<orch.fork, b>>}
                 /\ Step("issue", [orch EXCEPT !.branch = b, !.created = TRUE],
                         <<MsgBranchCreated>>)
            ELSE /\ refs' = refs
                 /\ Return("no_branch", <<MsgNoBranch>>)
    /\ UNCHANGED <<forks, commits, pulls>>
    /\ last' = "CreateBranch"

\* lines 83-92: the issue
GetIssue ==
    /\ opc = "issue"
    /\ \E ok \in BOOLEAN :
         IF ok
         THEN \E is \in IssueStates :
                Step("contents", [orch EXCEPT !.issue = is], <<MsgAnalyzing>>)
         ELSE Return("no_issue", <<MsgNoIssue>>)
    /\ UNCHANGED remote
    /\ last' = "GetIssue"

\* lines 94-128: the files of the fork, and the changes for them
GetContents ==
    /\ opc = "contents"
    /\ \E ok \in BOOLEAN :
         IF ok
         THEN LET rd == ForkNamed(orch.fork).readme IN
              Step("commit",
                   [orch EXCEPT !.readme = rd, !.changes = ChangesNeeded(rd), !.ci = 1],
                   <<MsgFoundFiles>>)
         ELSE Return("no_contents", <<MsgNoContents>>)
    /\ UNCHANGED remote
    /\ last' = "GetContents"

\* CommitChange with a return, instead of continue, after a failed update
CommitChangeAborting ==
    /\ opc = "commit"
    /\ orch.ci <= Len(orch.changes)
    /\ LET ch == orch.changes[orch.ci] IN
       \E ok \in BOOLEAN :
         /\ commits' = IF ok
                       THEN commits \cup {[fork |-> orch.fork, branch |-> orch.branch,
                                           path |-> ch.path, content |-> ch.new_content,
                                           number |-> orch.number]}
                       ELSE commits
         /\ IF ok THEN Step("commit", [orch EXCEPT !.ci = orch.ci + 1], <<MsgUpdated>>)
            ELSE Return("no_contents", <<MsgErrorUpdating>>)
    /\ UNCHANGED <<forks, refs, pulls>>
    /\ last' = "CommitChange"

\* lines 131-143: one turn of the loop over the changes
CommitChange ==
    /\ opc = "commit"
    /\ orch.ci <= Len(orch.changes)
    /\ LET ch == orch.changes[orch.ci] IN
       \E ok \in BOOLEAN :
         /\ commits' = IF ok
                       THEN commits \cup {[fork |-> orch.fork, branch |-> orch.branch,
                                           path |-> ch.path, content |-> ch.new_content,
                                           number |-> orch.number]}
                       ELSE commits
         /\ Step("commit", [orch EXCEPT !.ci = orch.ci + 1],
                 IF ok THEN <<MsgUpdated>> ELSE <<MsgErrorUpdating>>)
    /\ UNCHANGED <<forks, refs, pulls>>
    /\ last' = "CommitChange"

\* line 131: the loop over the changes is over
CommitDone ==
    /\ opc = "commit"
    /\ orch.ci > Len(orch.changes)
    /\ Step("pull", orch, <<>>)
    /\ UNCHANGED remote
    /\ last' = "CommitDone"

\* CreatePull that cleans up after a rejected pull request: the issue branch
\* and its commits are deleted
CreatePullRollingBack ==
    /\ opc = "pull"
    /\ \E ok \in BOOLEAN :
         IF ok
         THEN /\ pulls' = Append(pulls, [upstream |-> orch.repo, number |-> orch.number,
                                         title |-> PrTitle(orch.number, orch.issue),
                                         body |-> PrBody(orch.number, orch.changes,
                                                         orch.issue),
                                         head |-> HeadWithOwner(orch.branch),
                                         base |-> BaseBranch,
                                         files |-> [k \in 1..Len(orch.changes) |->
                                                      orch.changes[k].path]])
              /\ Return("pr", <<MsgPrCreated>>)
              /\ UNCHANGED <<forks, refs, commits>>
         ELSE /\ pulls' = pulls
              /\ refs' = refs \ {<<orch.fork, orch.branch>>}
              /\ commits' = {c \in commits :
                               c.fork # orch.fork \/ c.branch # orch.branch}
              /\ forks' = forks
              /\ Return("pr_rejected", <<MsgPrError>>)
    /\ last' = "CreatePull"

\* lines 145-171: the pull request
CreatePull ==
    /\ opc = "pull"
    /\ \E ok \in BOOLEAN :
         IF ok
         THEN /\ pulls' = Append(pulls, [upstream |-> orch.repo, number |-> orch.number,
                                         title |-> PrTitle(orch.number, orch.issue),
                                         body |-> PrBody(orch.number, orch.changes,
                                                         orch.issue),
                                         head |-> HeadWithOwner(orch.branch),
                                         base |-> BaseBranch,
                                         files |-> [k \in 1..Len(orch.changes) |->
                                                      orch.changes[k].path]])
              /\ Return("pr", <<MsgPrCreated>>)
         ELSE /\ pulls' = pulls
              /\ Return("pr_rejected", <<MsgPrError>>)
    /\ UNCHANGED <<forks, refs, commits>>
    /\ last' = "CreatePull"

\* ------------------------------------------------------- the process itself
\* Crash with a shutdown handler that writes the link of the row in hand to
\* the file
CrashFlushing ==
    /\ pc # "dead"
    /\ pc' = "dead"
    /\ opc' = "idle"
    /\ orch' = NoCall
    /\ processed' = {}
    /\ rows' = <<>>
    /\ out' = <<>>
    /\ outcome' = "none"
    /\ invoked' = {}
    /\ fileAtLoad' = <<>>
    /\ owed' = IF pc = "append" /\ outcome = "pr"
                  /\ rows[1].link \notin SeqToSet(Lines(file))
               THEN owed \cup {rows[1].link} ELSE owed
    /\ file' = IF pc \in {"call", "append"} THEN file \o rows[1].link \o <<NL>>
               ELSE file
    /\ UNCHANGED <<fileExists, remote, raisedFor>>
    /\ last' = "Crash"

\* the process is killed from outside: what it held in memory is lost, the
\* file and the remote stay
Crash ==
    /\ pc # "dead"
    /\ pc' = "dead"
    /\ opc' = "idle"
    /\ orch' = NoCall
    /\ processed' = {}
    /\ rows' = <<>>
    /\ out' = <<>>
    /\ outcome' = "none"
    /\ invoked' = {}
    /\ fileAtLoad' = <<>>
    /\ owed' = IF pc = "append" /\ outcome = "pr"
                  /\ rows[1].link \notin SeqToSet(Lines(file))
               THEN owed \cup {rows[1].link} ELSE owed
    /\ UNCHANGED <<fileExists, file, remote, raisedFor>>
    /\ last' = "Crash"

\* the process is started again (line 238)
Restart ==
    /\ pc = "dead"
    /\ pc' = "startup"
    /\ UNCHANGED <<fileExists, file, memory, opc, orch, remote, out, outcome,
                   history>>
    /\ last' = "Restart"

Driver ==
    \/ Startup \/ LoadProcessed \/ QueryStore
    \/ SkipNoLink \/ SkipProcessed \/ SkipInvalid \/ Invoke
    \/ AppendProcessed \/ Sleep

Orchestrator ==
    \/ GetUpstream \/ FindFork \/ CreateFork \/ RefetchFork
    \/ FindBase \/ CreateBase \/ CreateBranch
    \/ GetIssue \/ GetContents \/ CommitChange \/ CommitDone \/ CreatePull

Run == Driver \/ Orchestrator

Next == Run \/ Crash \/ Restart

Spec == Init /\ [][Next]_vars

\* the process left to run: every step it can take is taken in the end
LiveSpec == Init /\ [][Run]_vars /\ WF_vars(Run)

\* ------------------------------------------------------------ properties
\* l is a line of the text f: l holds no "\n" and is followed by "\n", at the
\* start of f or right after a "\n"
IsLineOf(l, f) ==
    \E i \in 1..Len(f) :
      /\ ~HasLineBreak(l)
      /\ i = 1 \/ f[i - 1] = NL
      /\ StartsWithAt(f, i, l \o <<NL>>)

\* how many lines of the text f are l
TimesIn(l, f) ==
    Cardinality({i \in 1..Len(f) :
                   /\ ~HasLineBreak(l)
                   /\ i = 1 \/ f[i - 1] = NL
                   /\ StartsWithAt(f, i, l \o <<NL>>)})

\* the link of the row the for loop is at
CurLink == rows[1].link

\* C1: once an issue URL is in the Processed-Set file, fork_and_create_pr is
\* never called for it again: whenever a call is running, the link it was made
\* for is not a line of the file.
C1_NoCallOnceAppended ==
    pc = "call" => ~IsLineOf(CurLink, file)

\* C2: the link of a row is appended to the file only when the call made for
\* the row opened a pull request; no step extends the file after a call that
\* ended in a failure.
C2_AppendOnlyAfterPull ==
    [][file' # file => outcome = "pr"]_vars

\* C3: every issue URL is on at most one line of the file, so each URL that
\* was processed is there exactly once, also when the store returns the same
\* URL in several rows of one cycle.
C3_EachUrlOnce ==
    \A l \in Links : TimesIn(l, file) <= 1

\* C4: a cycle makes no call of fork_and_create_pr for a URL that was a line of
\* the file when the cycle began.
C4_NoCallForLoadedUrl ==
    pc \in {"query", "row", "call", "append", "sleep"} =>
      \A l \in invoked : ~IsLineOf(l, fileAtLoad)

\* a row carries a URL that was in the file when the cycle began, and the
\* driver has just passed it over
C4_Witness ==
    /\ last = "SkipProcessed"
    /\ fileAtLoad # <<>>
    /\ invoked = {}

\* the driver is at a row and takes a step of its own (it is not killed)
RowStep == pc = "row" /\ pc' # "dead"

\* the driver logs that the link is invalid, makes no call, leaves the file as
\* it is and goes to the next row
PassedOverAsInvalid ==
    /\ MsgInvalid \in SeqToSet(out')
    /\ pc' = AfterRow
    /\ opc' = "idle"
    /\ rows' = Tail(rows)
    /\ file' = file

FailureOutcomes ==
    {"no_upstream", "no_branch", "no_issue", "no_contents", "pr_rejected", "raised"}

\* the step that ends a call in a failure, and every step after it in the cycle
FailureGoesOn ==
    /\ pc = "call" /\ opc' = "idle" /\ pc' # "dead" =>
         /\ outcome' \in FailureOutcomes \cup {"pr"}
         /\ IF outcome' = "raised"
            THEN /\ rows' = Tail(rows)
                 /\ pc' = IF Tail(rows) = <<>> THEN "sleep" ELSE "row"
            ELSE /\ rows' = rows
                 /\ pc' = "append"
    /\ pc \in {"row", "append"} /\ pc' \notin {"call", "dead"} =>
         /\ rows' = Tail(rows)
         /\ pc' = IF Tail(rows) = <<>> THEN "sleep" ELSE "row"
    /\ pc = "sleep" /\ pc' # "dead" => pc' = "load" /\ last' = "Sleep"

C6_FailureEndsOneRow ==
    [][FailureGoesOn]_vars

\* after a call that raised, the driver is at the next row of the same cycle
C6_Witness ==
    /\ outcome = "raised"
    /\ pc = "row"
    /\ last \in {"CreateFork", "RefetchFork", "CreateBase"}

\* C7: once a call has created the issue branch of an upstream and issue
\* number, a later call for them that comes to the create-issue-branch step
\* fails there, and none goes past it: no commit and no pull request are made
\* by a call that did not create the branch, and no two pull requests are for
\* the same upstream and issue number.
OnePullPerIssue ==
    \A i, j \in DOMAIN pulls :
      pulls[i].upstream = pulls[j].upstream /\ pulls[i].number = pulls[j].number
        => i = j

PastBranchStep == opc \in {"issue", "contents", "commit", "pull"}

DuplicateBranchFails ==
    opc = "branch" /\ <<orch.fork, NewBranchName(orch.number)>> \in refs
      /\ pc' # "dead"
    => /\ opc' = "idle"
       /\ outcome' = "no_branch"
       /\ MsgNoBranch \in SeqToSet(out')
       /\ UNCHANGED remote

C7_SecondCallFailsAtBranch ==
    /\ [](OnePullPerIssue /\ (PastBranchStep => orch.created))
    /\ [][DuplicateBranchFails]_vars
    /\ [][commits' # commits \/ pulls' # pulls => orch.created]_vars

\* a call for an upstream and issue number that have a pull request has just
\* failed at the create-issue-branch step
C7_Witness ==
    /\ last = "CreateBranch"
    /\ outcome = "no_branch"
    /\ \E i \in DOMAIN pulls :
         /\ pulls[i].upstream = MatchOf(CurLink).repo
         /\ pulls[i].number = IntOf(MatchOf(CurLink).digits)

\* C8: in a call that comes to the edit step, README.md is created on the
\* issue branch when the repository has none, and when it has one the content
\* to commit is the prior content followed by the appended text.
IsPrefixOf(p, q) == Len(p) <= Len(q) /\ SubSeq(q, 1, Len(p)) = p

C8_ReadmeCreatedOrAppended ==
    opc = "commit" =>
      /\ \E k \in DOMAIN orch.changes : orch.changes[k].path = ReadmePath
      /\ \A k \in DOMAIN orch.changes :
           /\ IsPrefixOf(orch.changes[k].prior.text, orch.changes[k].new_content)
           /\ Len(orch.changes[k].new_content) > Len(orch.changes[k].prior.text)

\* C9: when the process is killed after a call opened the pull request of a
\* URL and before the URL was appended to the file, then once it runs again
\* and the loop comes to a row with that URL, it calls fork_and_create_pr for
\* it.
OwedLinkCalled ==
    pc = "row" /\ rows[1].present /\ CurLink \in owed /\ pc' # "dead"
    => /\ pc' = "call"
       /\ opc' = "upstream"
       /\ orch'.repo = MatchOf(CurLink).repo
       /\ orch'.number = IntOf(MatchOf(CurLink).digits)

Contains(s, p) ==
    \E i \in 1..(Len(s) - Len(p) + 1) :
      s[i] = p[1] /\ SubSeq(s, i, i + Len(p) - 1) = p

\* C11: the body of every pull request that was opened holds the marker token
\* <<SOLVER:0x0543ae55a38fe8bb1041efb7f6135bb23e61d422>>, whatever the title and
\* the body of the issue and the change set are.
C11_EveryPullMarked ==
    \A i \in DOMAIN pulls : Contains(pulls[i].body, Marker)

\* a pull request was opened for an issue without a body, with no file changed
C11_Witness ==
    \E i \in DOMAIN pulls :
      /\ pulls[i].files = <<>>
      /\ Contains(pulls[i].body, BodyIssue \o NoneStr)

\* C12: no step deletes or resets a fork, a branch reference or a commit, and a
\* call that ends in a failure leaves what was created before it in place: the
\* fork it worked on, the base branch found or created, the issue branch it
\* created, and every commit.
NothingRolledBack ==
    /\ forks \subseteq forks'
    /\ refs \subseteq refs'
    /\ commits \subseteq commits'
    /\ opc # "idle" /\ opc' = "idle" /\ pc' # "dead"
         /\ outcome' \in FailureOutcomes =>
           /\ orch.created => <<orch.fork, orch.branch>> \in refs'
           /\ opc \in {"branch", "issue", "contents", "commit", "pull"} =>
                /\ \E f \in forks' : f.name = orch.fork
                /\ <<orch.fork, BaseBranch>> \in refs'

C12_NoRollback ==
    [][NothingRolledBack]_vars

\* the pull request was rejected after the issue branch got a commit, and the
\* branch and the commit are still there
C12_Witness ==
    /\ last = "CreatePull"
    /\ outcome = "pr_rejected"
    /\ \E c \in commits : <<c.fork, c.branch>> \in refs /\ c.number = IntOf(MatchOf(CurLink).digits)

\* C13: a call that comes to the commit step takes one turn per change, logs
\* a failed update and goes to the next change, and when the changes are over
\* (also when there was none, or every update failed) attempts the pull
\* request, once: the pull step is entered from the commit step only and is
\* left for the end of the call.
CommitThenPull ==
    /\ opc = "commit" /\ pc' # "dead" =>
         IF orch.ci <= Len(orch.changes)
         THEN /\ opc' = "commit"
              /\ orch'.ci = orch.ci + 1
              /\ orch'.changes = orch.changes
              /\ \/ MsgUpdated \in SeqToSet(out') /\ commits' # commits
                 \/ MsgErrorUpdating \in SeqToSet(out') /\ commits' = commits
         ELSE opc' = "pull" /\ UNCHANGED remote
    /\ opc' = "pull" /\ opc # "pull" =>
         opc = "commit" /\ orch.ci > Len(orch.changes)
    /\ opc = "pull" /\ pc' # "dead" =>
         /\ opc' = "idle"
         /\ last' = "CreatePull"
         /\ outcome' \in {"pr", "pr_rejected"}
         /\ Len(pulls') <= Len(pulls) + 1

C13_PullAttemptedAfterCommits ==
    /\ [](opc = "commit" => orch.ci <= Len(orch.changes) + 1)
    /\ [][CommitThenPull]_vars

\* the call is at the pull step after the update of every file of a change
\* set that was not empty failed
C13_Witness ==
    /\ opc = "pull"
    /\ orch.changes # <<>>
    /\ ~\E c \in commits : c.fork = orch.fork /\ c.branch = orch.branch

\* C14: the steps of a call come in the order upstream, fork (found, or
\* created and looked up again), base branch (found or created), issue branch,
\* issue, file tree, commits, pull request; the pull request is attempted only
\* by a call that went through all of them and created the issue branch, and
\* its head is <login>:<branch_prefix>-<issue_number>, its base base_branch.
StepsAfter(step) ==
    CASE step = "idle" -> {"upstream"}
      [] step = "upstream" -> {"fork"}
      [] step = "fork" -> {"base", "create_fork"}
      [] step = "create_fork" -> {"refetch_fork"}
      [] step = "refetch_fork" -> {"base"}
      [] step = "base" -> {"branch", "create_base"}
      [] step = "create_base" -> {"branch"}
      [] step = "branch" -> {"issue"}
      [] step = "issue" -> {"contents"}
      [] step = "contents" -> {"commit"}
      [] step = "commit" -> {"pull"}
      [] step = "pull" -> {}

ReadyForPull ==
    /\ orch.repo = MatchOf(CurLink).repo
    /\ orch.fork = ForkFullName(MatchOf(CurLink).name)
    /\ ForkExists(orch.fork)
    /\ <<orch.fork, BaseBranch>> \in refs
    /\ orch.created
    /\ orch.branch = BranchPrefix \o <<"-">> \o StrOf(orch.number)
    /\ <<orch.fork, orch.branch>> \in refs
    /\ orch.issue \in IssueStates
    /\ orch.changes = ChangesNeeded(orch.readme)
    /\ orch.ci > Len(orch.changes)

HeadAndBase(p) ==
    /\ p.head = Login \o <<":">> \o BranchPrefix \o <<"-">> \o StrOf(p.number)
    /\ p.base = BaseBranch

C14_StepsInOrder ==
    /\ [][opc' # opc /\ opc' # "idle" => opc' \in StepsAfter(opc)]_vars
    /\ [][pulls' # pulls => opc = "pull" /\ pulls' = Append(pulls, pulls'[Len(pulls')])]_vars
    /\ [](opc = "pull" => ReadyForPull)
    /\ [](\A i \in DOMAIN pulls : HeadAndBase(pulls[i]))

\* a pull request was opened for the issue whose number was written 08: its
\* head names the branch issue-fix-8
C14_Witness ==
    /\ last = "CreatePull"
    /\ outcome = "pr"
    /\ pulls[Len(pulls)].number = 8
    /\ ReMatch(CurLink).digits = <<"0", "8">>

\* C15: the actor has at most one fork per repository name; the fork is
\* requested only from the step that follows a failed lookup, at most once in
\* a call, and the request is followed by one lookup, after which the call
\* goes on or raises; a fork that is found is used as it is.
OneForkPerName == \A f, g \in forks : f.name = g.name => f = g

ForkSteps ==
    /\ opc' = "fork" /\ opc # "fork" => opc = "upstream"
    /\ opc' = "create_fork" /\ opc # "create_fork" =>
         /\ opc = "fork"
         /\ MsgNoFork \in SeqToSet(out')
         /\ UNCHANGED remote
    /\ opc = "fork" /\ MsgFoundFork \in SeqToSet(out') =>
         /\ opc' = "base"
         /\ orch'.fork = ForkFullName(orch.name)
         /\ ForkExists(orch'.fork)
         /\ UNCHANGED remote
    /\ opc = "create_fork" /\ pc' # "dead" =>
         \/ opc' = "refetch_fork"
         \/ opc' = "idle" /\ outcome' = "raised" /\ UNCHANGED remote
    /\ opc = "refetch_fork" /\ pc' # "dead" =>
         /\ UNCHANGED remote
         /\ \/ opc' = "base" /\ ForkExists(orch.fork)
            \/ opc' = "idle" /\ outcome' = "raised"
    /\ forks' # forks =>
         /\ opc = "create_fork"
         /\ ~ForkExists(orch.fork)
         /\ \E f \in forks' : f.name = orch.fork /\ forks' = forks \cup {f}

C15_OneForkReused ==
    /\ []OneForkPerName
    /\ [][ForkSteps]_vars

\* a later call found the fork an earlier call had created, and goes on with it
C15_Witness ==
    /\ last = "FindFork"
    /\ opc = "base"
    /\ pulls # <<>>
    /\ ForkExists(orch.fork)

\* C16, as stated: the file is created empty only when it is absent at
\* startup, is never truncated or rewritten, and every step leaves its
\* sequence of lines as it is or extends it by exactly one line at the end.
OneLineAppended ==
    /\ fileExists => fileExists' /\ IsPrefixOf(file, file')
    /\ ~fileExists /\ fileExists' => pc = "startup" /\ file' = <<>>
    /\ \/ Lines(file') = Lines(file)
       \/ \E l \in SeqToSet(Lines(file')) : Lines(file') = Append(Lines(file), l)

C16_AppendOnlyByLine ==
    [][OneLineAppended]_vars

\* C17: the rows of a cycle are handled one at a time in the order of the
\* list: a running call is the call for the row at the head of the list, the
\* file is extended by the link of that row only, after its call returned, and
\* the head row is left only when its call has ended and its append, if any,
\* is done.
CallIsForHeadRow ==
    /\ pc = "call" => /\ opc # "idle"
                      /\ orch.repo = MatchOf(CurLink).repo
                      /\ orch.number = IntOf(MatchOf(CurLink).digits)
    /\ pc # "call" => opc = "idle"
    /\ pc \in {"row", "call", "append"} => rows # <<>>

HeadRowFirst ==
    /\ rows' # rows /\ pc' # "dead" /\ pc # "query" =>
         /\ rows' = Tail(rows)
         /\ opc' = "idle"
         /\ pc \in {"row", "append"} \/ (pc = "call" /\ outcome' = "raised")
    /\ file' # file =>
         /\ pc = "append"
         /\ file' = file \o CurLink \o <<NL>>
         /\ rows' = Tail(rows)
    /\ pc' = "call" /\ pc # "call" => pc = "row" /\ rows' = rows
    /\ pc = "call" /\ opc' = "idle" /\ outcome' # "raised" /\ pc' # "dead" =>
         pc' = "append" /\ rows' = rows

C17_RowsOneAtATime ==
    /\ []CallIsForHeadRow
    /\ [][HeadRowFirst]_vars

\* the call for the second row is running, after the link of the first row was
\* appended in this cycle; the two rows are for different issues
C17_Witness ==
    /\ pc = "call"
    /\ file # fileAtLoad
    /\ ~IsLineOf(LinkA7, fileAtLoad)
    /\ IsLineOf(LinkA7, file)
    /\ orch.number = 8

\* the step ends a call of fork_and_create_pr
CallEnds == opc # "idle" /\ opc' = "idle" /\ pc' # "dead"

FailureMsgs ==
    {MsgNoUpstream, MsgNoBranch, MsgNoIssue, MsgNoContents, MsgPrError,
     MsgErrorProcessing}

CallAndUpdateFailuresLogged ==
    /\ CallEnds /\ outcome' # "pr" => SeqToSet(out') \cap FailureMsgs # {}
    /\ opc = "commit" /\ opc' = "commit" /\ orch'.ci # orch.ci /\ commits' = commits
         => MsgErrorUpdating \in SeqToSet(out')

\* the driver leaves the row without a call and without an append
RowSkipped == pc = "row" /\ pc' \in {"row", "sleep"} /\ rows' = Tail(rows)

\* C18, as stated: every early end of a call, every failed file update and
\* every row that is skipped for another reason than being processed already,
\* a row with a missing or empty link included, prints a line.
EveryFailureLogged ==
    /\ CallAndUpdateFailuresLogged
    /\ RowSkipped /\ ~(rows[1].present /\ CurLink # <<>> /\ CurLink \in processed)
         => out' # <<>>

FailuresLogged ==
    /\ CallAndUpdateFailuresLogged
    /\ RowSkipped /\ rows[1].present /\ CurLink # <<>> /\ CurLink \notin processed
         => MsgInvalid \in SeqToSet(out')

ReturnOutcomes ==
    {"pr", "no_upstream", "no_branch", "no_issue", "no_contents", "pr_rejected"}

LinesAreReturnedUrls ==
    file' # file =>
      /\ pc = "append" /\ opc = "idle"
      /\ outcome \in ReturnOutcomes
      /\ CurLink \in invoked
      /\ \A k \in DOMAIN Lines(file') : ReMatch(Lines(file')[k]).ok

C20_LinesAreReturnedUrls ==
    [][LinesAreReturnedUrls]_vars

\* C19: a call that raises is not followed by the append of its link, and as
\* long as the link is not appended the loop, at every row that carries it in
\* every later cycle, calls fork_and_create_pr for it again.
RaisedLinkCalledAgain ==
    /\ CallEnds /\ outcome' = "raised" =>
         /\ last' \in {"CreateFork", "RefetchFork", "CreateBase"}
         /\ file' = file
         /\ pc' \in {"row", "sleep"}
    /\ pc = "row" /\ rows[1].present /\ CurLink \in raisedFor /\ pc' # "dead" =>
         /\ pc' = "call"
         /\ opc' = "upstream"
         /\ orch'.repo = MatchOf(CurLink).repo
         /\ orch'.number = IntOf(MatchOf(CurLink).digits)

C19_RaisedLinkCalledAgain ==
    [][RaisedLinkCalledAgain]_vars

\* the first call of a cycle is for a link whose call raised in an earlier
\* cycle
C19_Witness ==
    /\ last = "Invoke"
    /\ CurLink \in raisedFor
    /\ invoked = {CurLink}
    /\ Len(rows) = MaxRows

====
